---- MODULE Spec2Model ----
(***************************************************************************)
(* Model of runsc/cmd/debug.go: Debug.Execute, the "debug" subcommand.     *)
(*                                                                         *)
(* One run of Execute is a walk of pc through the function body.  Every    *)
(* external call (container registry, sandbox RPCs, os.Create, kill,       *)
(* sleep) has an outcome chosen by the environment and is recorded, in     *)
(* program order, in the history variable calls.  Go strings whose content *)
(* is inspected (strace, logLevel, logPackets) are sequences of            *)
(* Unicode code points; file paths are only compared with "".              *)
(***************************************************************************)
EXTENDS Integers, Sequences, FiniteSets, TLC

VARIABLES
    d,        \* the Debug struct (flag values)
    NArg,     \* f.NArg(): number of positional arguments
    pc,       \* position in Execute
    ids,      \* the ids returned by container.List, each with what Load returns for it
    idx,      \* index of the range loop over ids
    c,        \* <<>> is nil, <<container>> is the resolved container
    defers,   \* stack of deferred cleanups, last registered last
    delay,    \* local variable delay
    ret,      \* value of the return statement being executed
    err,      \* which return statement produced ret
    status,   \* how the command ended: "none" while it runs
    calls,    \* history: external calls in program order
    sent      \* history: LoggingArgs passed to ChangeLogging

vars == <<d, NArg, pc, ids, idx, c, defers, delay, ret, err, status, calls, sent>>

(***************************************************************************)
(* Bounds of the model.                                                    *)
(***************************************************************************)
MaxIds == 2       \* longest container.List result
MaxNArg == 2      \* most positional arguments

(***************************************************************************)
(* Strings as character sequences.                                         *)
(***************************************************************************)
\* the printable ASCII characters U+0020..U+005F and U+0061..U+007E (the
\* grave accent U+0060 cannot be written in a string of this language)
Ascii == <<
    " ","!","\"","#","$","%","&","'","(",")","*","+",",","-",".","/",
    "0","1","2","3","4","5","6","7","8","9",":",";","<","=",">","?",
    "@","A","B","C","D","E","F","G","H","I","J","K","L","M","N","O",
    "P","Q","R","S","T","U","V","W","X","Y","Z","[","\\","]","^","_" >>
AsciiLower == <<
    "a","b","c","d","e","f","g","h","i","j","k","l","m","n","o",
    "p","q","r","s","t","u","v","w","x","y","z","{","|","}","~" >>

\* the code point of a printable ASCII character
Ord(ch) ==
    IF \E k \in DOMAIN Ascii : Ascii[k] = ch
    THEN 31 + CHOOSE k \in DOMAIN Ascii : Ascii[k] = ch
    ELSE 96 + CHOOSE k \in DOMAIN AsciiLower : AsciiLower[k] = ch

\* a string literal of the source, written as a tuple of its characters
Runes(s) == [k \in 1..Len(s) |-> Ord(s[k])]

\* the characters 'A', 'Z', 'a' and ','
UpperA == Ord("A")
UpperZ == Ord("Z")
LowerA == Ord("a")
Comma == Ord(",")

\* unicode.MaxASCII, unicode.MaxRune, unicode.UpperLower
MaxASCII == 127
MaxRune == 1114111
UpperLower == MaxRune + 1

\* unicode.CaseRanges (Unicode 13.0.0), the ranges with a lower case delta:
\* <<Lo, Hi, Delta[LowerCase]>>.  A delta of UpperLower marks a range of
\* alternating upper and lower case letters that starts with an upper case one.
CaseRanges == <<
    <<192, 214, 32>>, <<216, 222, 32>>, <<256, 303, UpperLower>>,
    <<304, 304, -199>>, <<306, 311, UpperLower>>, <<313, 328, UpperLower>>,
    <<330, 375, UpperLower>>, <<376, 376, -121>>, <<377, 382, UpperLower>>,
    <<385, 385, 210>>, <<386, 389, UpperLower>>, <<390, 390, 206>>,
    <<391, 391, 1>>, <<393, 394, 205>>, <<395, 395, 1>>,
    <<398, 398, 79>>, <<399, 399, 202>>, <<400, 400, 203>>,
    <<401, 401, 1>>, <<403, 403, 205>>, <<404, 404, 207>>,
    <<406, 406, 211>>, <<407, 407, 209>>, <<408, 408, 1>>,
    <<412, 412, 211>>, <<413, 413, 213>>, <<415, 415, 214>>,
    <<416, 421, UpperLower>>, <<422, 422, 218>>, <<423, 423, 1>>,
    <<425, 425, 218>>, <<428, 428, 1>>, <<430, 430, 218>>,
    <<431, 431, 1>>, <<433, 434, 217>>, <<435, 438, UpperLower>>,
    <<439, 439, 219>>, <<440, 440, 1>>, <<444, 444, 1>>,
    <<452, 452, 2>>, <<453, 453, 1>>, <<455, 455, 2>>,
    <<456, 456, 1>>, <<458, 458, 2>>, <<459, 476, UpperLower>>,
    <<478, 495, UpperLower>>, <<497, 497, 2>>, <<498, 501, UpperLower>>,
    <<502, 502, -97>>, <<503, 503, -56>>, <<504, 543, UpperLower>>,
    <<544, 544, -130>>, <<546, 563, UpperLower>>, <<570, 570, 10795>>,
    <<571, 571, 1>>, <<573, 573, -163>>, <<574, 574, 10792>>,
    <<577, 577, 1>>, <<579, 579, -195>>, <<580, 580, 69>>,
    <<581, 581, 71>>, <<582, 591, UpperLower>>, <<880, 883, UpperLower>>,
    <<886, 886, 1>>, <<895, 895, 116>>, <<902, 902, 38>>,
    <<904, 906, 37>>, <<908, 908, 64>>, <<910, 911, 63>>,
    <<913, 929, 32>>, <<931, 939, 32>>, <<975, 975, 8>>,
    <<984, 1007, UpperLower>>, <<1012, 1012, -60>>, <<1015, 1015, 1>>,
    <<1017, 1017, -7>>, <<1018, 1018, 1>>, <<1021, 1023, -130>>,
    <<1024, 1039, 80>>, <<1040, 1071, 32>>, <<1120, 1153, UpperLower>>,
    <<1162, 1215, UpperLower>>, <<1216, 1216, 15>>, <<1217, 1230, UpperLower>>,
    <<1232, 1327, UpperLower>>, <<1329, 1366, 48>>, <<4256, 4293, 7264>>,
    <<4295, 4295, 7264>>, <<4301, 4301, 7264>>, <<5024, 5103, 38864>>,
    <<5104, 5109, 8>>, <<7312, 7354, -3008>>, <<7357, 7359, -3008>>,
    <<7680, 7829, UpperLower>>, <<7838, 7838, -7615>>, <<7840, 7935, UpperLower>>,
    <<7944, 7951, -8>>, <<7960, 7965, -8>>, <<7976, 7983, -8>>,
    <<7992, 7999, -8>>, <<8008, 8013, -8>>, <<8025, 8025, -8>>,
    <<8027, 8027, -8>>, <<8029, 8029, -8>>, <<8031, 8031, -8>>,
    <<8040, 8047, -8>>, <<8072, 8079, -8>>, <<8088, 8095, -8>>,
    <<8104, 8111, -8>>, <<8120, 8121, -8>>, <<8122, 8123, -74>>,
    <<8124, 8124, -9>>, <<8136, 8139, -86>>, <<8140, 8140, -9>>,
    <<8152, 8153, -8>>, <<8154, 8155, -100>>, <<8168, 8169, -8>>,
    <<8170, 8171, -112>>, <<8172, 8172, -7>>, <<8184, 8185, -128>>,
    <<8186, 8187, -126>>, <<8188, 8188, -9>>, <<8486, 8486, -7517>>,
    <<8490, 8490, -8383>>, <<8491, 8491, -8262>>, <<8498, 8498, 28>>,
    <<8544, 8559, 16>>, <<8579, 8579, 1>>, <<9398, 9423, 26>>,
    <<11264, 11310, 48>>, <<11360, 11360, 1>>, <<11362, 11362, -10743>>,
    <<11363, 11363, -3814>>, <<11364, 11364, -10727>>, <<11367, 11372, UpperLower>>,
    <<11373, 11373, -10780>>, <<11374, 11374, -10749>>, <<11375, 11375, -10783>>,
    <<11376, 11376, -10782>>, <<11378, 11378, 1>>, <<11381, 11381, 1>>,
    <<11390, 11391, -10815>>, <<11392, 11491, UpperLower>>, <<11499, 11502, UpperLower>>,
    <<11506, 11506, 1>>, <<42560, 42605, UpperLower>>, <<42624, 42651, UpperLower>>,
    <<42786, 42799, UpperLower>>, <<42802, 42863, UpperLower>>, <<42873, 42876, UpperLower>>,
    <<42877, 42877, -35332>>, <<42878, 42887, UpperLower>>, <<42891, 42891, 1>>,
    <<42893, 42893, -42280>>, <<42896, 42899, UpperLower>>, <<42902, 42921, UpperLower>>,
    <<42922, 42922, -42308>>, <<42923, 42923, -42319>>, <<42924, 42924, -42315>>,
    <<42925, 42925, -42305>>, <<42926, 42926, -42308>>, <<42928, 42928, -42258>>,
    <<42929, 42929, -42282>>, <<42930, 42930, -42261>>, <<42931, 42931, 928>>,
    <<42932, 42943, UpperLower>>, <<42946, 42946, 1>>, <<42948, 42948, -48>>,
    <<42949, 42949, -42307>>, <<42950, 42950, -35384>>, <<42951, 42954, UpperLower>>,
    <<42997, 42997, 1>>, <<65313, 65338, 32>>, <<66560, 66599, 40>>,
    <<66736, 66771, 40>>, <<68736, 68786, 64>>, <<71840, 71871, 32>>,
    <<93760, 93791, 32>>, <<125184, 125217, 34>> >>

\* unicode.To(LowerCase, r)
To(r) ==
    IF \E k \in DOMAIN CaseRanges : CaseRanges[k][1] <= r /\ r <= CaseRanges[k][2]
    THEN LET cr == CaseRanges[CHOOSE k \in DOMAIN CaseRanges :
                                  CaseRanges[k][1] <= r /\ r <= CaseRanges[k][2]]
         IN  IF cr[3] > MaxRune
             THEN cr[1] + ((r - cr[1]) - ((r - cr[1]) % 2) + 1)
             ELSE r + cr[3]
    ELSE r

\* strings.ToLower on one character, which is unicode.ToLower: 'A'..'Z' are
\* shifted to 'a'..'z', other ASCII stays, the rest goes through CaseRanges
ToLowerChar(r) ==
    IF r <= MaxASCII
    THEN IF UpperA <= r /\ r <= UpperZ THEN r + (LowerA - UpperA) ELSE r
    ELSE To(r)

\* strings.ToLower
ToLower(s) == [k \in 1..Len(s) |-> ToLowerChar(s[k])]

\* index of the first sep in s, 0 if there is none
IndexOf(s, sep) ==
    IF \E k \in 1..Len(s) : s[k] = sep
    THEN CHOOSE k \in 1..Len(s) : s[k] = sep /\ \A j \in 1..(k-1) : s[j] # sep
    ELSE 0

\* strings.Split(s, sep) for a one character separator
RECURSIVE Split(_, _)
Split(s, sep) ==
    LET k == IndexOf(s, sep)
    IN  IF k = 0 THEN <<s>>
        ELSE <<SubSeq(s, 1, k-1)>> \o Split(SubSeq(s, k+1, Len(s)), sep)

\* the literals strconv.ParseBool accepts
TrueLiterals ==
    { Runes(<<"1">>), Runes(<<"t">>), Runes(<<"T">>), Runes(<<"T","R","U","E">>),
      Runes(<<"t","r","u","e">>), Runes(<<"T","r","u","e">>) }
FalseLiterals ==
    { Runes(<<"0">>), Runes(<<"f">>), Runes(<<"F">>), Runes(<<"F","A","L","S","E">>),
      Runes(<<"f","a","l","s","e">>), Runes(<<"F","a","l","s","e">>) }

\* the case labels of the log level switch, lines 210, 212, 214
LevelWarning == { Runes(<<"w","a","r","n","i","n","g">>), Runes(<<"0">>) }
LevelInfo == { Runes(<<"i","n","f","o">>), Runes(<<"1">>) }
LevelDebug == { Runes(<<"d","e","b","u","g">>), Runes(<<"2">>) }

\* strconv.ParseBool
ParseBool(s) ==
    IF s \in TrueLiterals
    THEN [ok |-> TRUE, val |-> TRUE]
    ELSE IF s \in FalseLiterals
    THEN [ok |-> TRUE, val |-> FALSE]
    ELSE [ok |-> FALSE, val |-> FALSE]

(***************************************************************************)
(* Flag values the model draws from.                                       *)
(***************************************************************************)
PidInputs == {0, 42}
SignalInputs == {-1, 0, 9}
PathInputs(p) == {"", p}
\* values of -strace: "Off", "ALL", "r,w" and the names "r,w" lists
MixedCaseOff == Runes(<<"O","f","f">>)
UpperCaseAll == Runes(<<"A","L","L">>)
CommaList == Runes(<<"r",",","w">>)
CommaListNames == << Runes(<<"r">>), Runes(<<"w">>) >>
StraceInputs ==
    { <<>>, MixedCaseOff, Runes(<<"a","l","l">>), UpperCaseAll, CommaList }
LogLevelInputs ==
    { <<>>, Runes(<<"I","N","F","O">>), <<304>> \o Runes(<<"N","F","O">>),
      Runes(<<"2">>), Runes(<<"b","o","g","u","s">>) }
LogPacketsInputs == { <<>>, Runes(<<"t","r","u","e">>), Runes(<<"m","a","y","b","e">>) }

\* containers the registry can hold: SandboxPid() as reported by the
\* container, whether c.Sandbox is non-nil, c.Sandbox.IsRunning(), c.Sandbox.Pid
Containers ==
    { [SandboxPid |-> p, HasSandbox |-> sb[1], IsRunning |-> sb[2], Pid |-> p] :
        p \in {42, 7}, sb \in { <<FALSE, FALSE>>, <<TRUE, FALSE>>, <<TRUE, TRUE>> } }

Files == {"heap", "cpu", "trace"}

\* one external call: operation, the destination it concerns, its outcome;
\* pid and sig are the arguments of syscall.Kill, 0 for every other call
Ev(op, file, ok) == [op |-> op, file |-> file, ok |-> ok, pid |-> 0, sig |-> 0]

\* syscall.Kill(pid, sig), line 124
KillEv(pid, sig, ok) == [op |-> "Kill", file |-> "-", ok |-> ok, pid |-> pid, sig |-> sig]

\* what container.Load returns for one listed id: an error, or a container
LoadResults ==
    { [ok |-> TRUE, cont |-> x] : x \in Containers } \cup
    { [ok |-> FALSE, cont |-> [SandboxPid |-> 0, HasSandbox |-> FALSE,
                               IsRunning |-> FALSE, Pid |-> 0]] }

\* sequences over S of length at most n
RECURSIVE SeqsUpTo(_, _)
SeqsUpTo(S, n) ==
    IF n = 0 THEN { <<>> }
    ELSE LET shorter == SeqsUpTo(S, n - 1)
         IN  shorter \cup { Append(q, x) : q \in shorter, x \in S }

(***************************************************************************)
(* Exit paths.                                                             *)
(***************************************************************************)
\* Errorf logs the message and yields the failure exit status
Errorf == "ExitFailure"

\* Fatalf logs the message and exits the process: deferred calls still
\* pending never run and no status is returned
Fatalf ==
    /\ status' = "Fatal"
    /\ pc' = "exited"

\* a return statement: the deferred calls run next, then the caller gets st
Return(st, e) ==
    /\ ret' = st
    /\ err' = e
    /\ pc' = "return"

\* fall through to the next statement
Goto(l) ==
    /\ pc' = l
    /\ UNCHANGED <<ret, err>>

\* variant: the CPU profile block placed before the heap profile block
Steps_CPUFirst == << "signal", "stacks", "cpu", "heap", "trace", "logging", "sleep" >>

\* the order of the blocks of the function body, lines 122-246
Steps == << "signal", "stacks", "heap", "cpu", "trace", "logging", "sleep" >>

\* the block that follows block l
After(l) == Steps[(CHOOSE i \in 1..Len(Steps) : Steps[i] = l) + 1]

(***************************************************************************)
(* Init: the state when Execute is entered, flags parsed.                  *)
(***************************************************************************)
Init ==
    /\ d \in [ pid : PidInputs, stacks : BOOLEAN, signal : SignalInputs,
               profileHeap : PathInputs("heap.out"),
               profileCPU : PathInputs("cpu.out"),
               profileDelay : {5},
               trace : PathInputs("trace.out"),
               strace : StraceInputs, logLevel : LogLevelInputs,
               logPackets : LogPacketsInputs ]
    /\ NArg \in 0..MaxNArg
    /\ pc = "args"
    /\ ids = <<>>
    /\ idx = 0
    /\ c = <<>>
    /\ defers = <<>>
    /\ delay = FALSE
    /\ ret = "none"
    /\ err = "none"
    /\ status = "none"
    /\ calls = <<>>
    /\ sent = <<>>

(***************************************************************************)
(* Target resolution, lines 81-120.                                        *)
(***************************************************************************)
\* variant: only a missing container ID is refused, extra arguments pass
CheckArgs_AtLeastOne ==
    /\ pc = "args"
    /\ IF d.pid = 0
       THEN IF NArg < 1 THEN Return("ExitUsageError", "Usage") ELSE Goto("load")
       ELSE IF NArg # 0 THEN Return("ExitUsageError", "Usage") ELSE Goto("list")
    /\ UNCHANGED <<d, NArg, ids, idx, c, defers, delay, status, calls, sent>>

\* variant: the log level is validated together with the argument count
CheckArgs_EagerLevel ==
    /\ pc = "args"
    /\ IF Len(d.logLevel) # 0 /\
          ToLower(d.logLevel) \notin (LevelWarning \cup LevelInfo \cup LevelDebug)
       THEN Return("ExitFailure", "InvalidLogLevel")
       ELSE IF d.pid = 0
       THEN IF NArg # 1 THEN Return("ExitUsageError", "Usage") ELSE Goto("load")
       ELSE IF NArg # 0 THEN Return("ExitUsageError", "Usage") ELSE Goto("list")
    /\ UNCHANGED <<d, NArg, ids, idx, c, defers, delay, status, calls, sent>>

\* lines 81-86 and 92-96: the positional argument count for the mode
CheckArgs ==
    /\ pc = "args"
    /\ IF d.pid = 0
       THEN IF NArg # 1 THEN Return("ExitUsageError", "Usage") ELSE Goto("load")
       ELSE IF NArg # 0 THEN Return("ExitUsageError", "Usage") ELSE Goto("list")
    /\ UNCHANGED <<d, NArg, ids, idx, c, defers, delay, status, calls, sent>>

\* lines 87-91: container.Load of the given id
LoadByID ==
    /\ pc = "load"
    /\ \/ /\ calls' = Append(calls, Ev("Load", "-", FALSE))
          /\ Return(Errorf, "LoadFailed")
          /\ UNCHANGED c
       \/ \E cand \in Containers :
          /\ calls' = Append(calls, Ev("Load", "-", TRUE))
          /\ c' = <<cand>>
          /\ Goto("running")
    /\ UNCHANGED <<d, NArg, ids, idx, defers, delay, status, sent>>

\* lines 97-101: container.List
List ==
    /\ pc = "list"
    /\ \/ /\ calls' = Append(calls, Ev("List", "-", FALSE))
          /\ Return(Errorf, "ListFailed")
          /\ UNCHANGED ids
       \/ \E listed \in SeqsUpTo(LoadResults, MaxIds) :
          /\ calls' = Append(calls, Ev("List", "-", TRUE))
          /\ ids' = listed
          /\ Goto("scan")
    /\ UNCHANGED <<d, NArg, idx, c, defers, delay, status, sent>>

\* variant: no break, the scan goes on after a match
ScanLoad_NoBreak ==
    /\ pc = "scan"
    /\ idx < Len(ids)
    /\ LET loaded == ids[idx + 1]
       IN  IF ~loaded.ok
           THEN /\ calls' = Append(calls, Ev("Load", "-", FALSE))
                /\ Return(Errorf, "LoadFailed")
                /\ UNCHANGED <<c, idx>>
           ELSE /\ calls' = Append(calls, Ev("Load", "-", TRUE))
                /\ idx' = idx + 1
                /\ IF loaded.cont.SandboxPid = d.pid
                   THEN c' = <<loaded.cont>> /\ Goto("scan")
                   ELSE UNCHANGED c /\ Goto("scan")
    /\ UNCHANGED <<d, NArg, ids, defers, delay, status, sent>>

\* lines 102-111: one iteration of the range loop; idx ids have been loaded
ScanLoad ==
    /\ pc = "scan"
    /\ idx < Len(ids)
    /\ LET candidate == ids[idx + 1]
       IN  IF ~candidate.ok
           THEN /\ calls' = Append(calls, Ev("Load", "-", FALSE))
                /\ Return(Errorf, "LoadFailed")
                /\ UNCHANGED <<c, idx>>
           ELSE /\ calls' = Append(calls, Ev("Load", "-", TRUE))
                /\ idx' = idx + 1
                /\ IF candidate.cont.SandboxPid = d.pid
                   THEN c' = <<candidate.cont>> /\ Goto("found")
                   ELSE UNCHANGED c /\ Goto("scan")
    /\ UNCHANGED <<d, NArg, ids, defers, delay, status, sent>>

\* lines 112-115: after the loop; ids and the loop index are local to the
\* else block and are gone when it is left
ScanEnd ==
    /\ \/ pc = "found"
       \/ pc = "scan" /\ idx = Len(ids)
    /\ IF c = <<>>
       THEN Return(Errorf, "NotFound") /\ UNCHANGED <<ids, idx>>
       ELSE Goto("running") /\ ids' = <<>> /\ idx' = 0
    /\ UNCHANGED <<d, NArg, c, defers, delay, status, calls, sent>>

\* variant: only the nil check, IsRunning left out
SandboxNotRunning_NilOnly(cont) == ~cont.HasSandbox

\* line 117: the condition of the liveness check
SandboxNotRunning(cont) == ~cont.HasSandbox \/ ~cont.IsRunning

\* lines 117-120
CheckRunning ==
    /\ pc = "running"
    /\ IF SandboxNotRunning(c[1])
       THEN Return(Errorf, "NotRunning")
       ELSE Goto(Steps[1])
    /\ UNCHANGED <<d, NArg, ids, idx, c, defers, delay, status, calls, sent>>

(***************************************************************************)
(* Diagnostic actions, lines 122-186.                                      *)
(***************************************************************************)
\* variant: signal 0 is delivered too
WantSignal_Zero == d.signal >= 0

\* line 122: whether a signal was requested
WantSignal == d.signal > 0

\* line 124: the process the signal is sent to, c.Sandbox.Pid
KillTarget == c[1].Pid

\* lines 122-127: syscall.Kill(c.Sandbox.Pid, d.signal)
Signal ==
    /\ pc = "signal"
    /\ IF WantSignal
       THEN \E ok \in BOOLEAN :
            /\ calls' = Append(calls, KillEv(KillTarget, d.signal, ok))
            /\ IF ok THEN Goto(After("signal")) ELSE Return(Errorf, "SignalFailed")
       ELSE Goto(After("signal")) /\ UNCHANGED calls
    /\ UNCHANGED <<d, NArg, ids, idx, c, defers, delay, status, sent>>

\* variant: the error of Stacks is logged and the command goes on
Stacks_IgnoreError ==
    /\ pc = "stacks"
    /\ IF d.stacks
       THEN \E ok \in BOOLEAN :
            /\ calls' = Append(calls, Ev("Stacks", "-", ok))
            /\ Goto(After("stacks"))
       ELSE Goto(After("stacks")) /\ UNCHANGED calls
    /\ UNCHANGED <<d, NArg, ids, idx, c, defers, delay, status, sent>>

\* lines 128-135: c.Sandbox.Stacks()
Stacks ==
    /\ pc = "stacks"
    /\ IF d.stacks
       THEN \E ok \in BOOLEAN :
            /\ calls' = Append(calls, Ev("Stacks", "-", ok))
            /\ IF ok THEN Goto(After("stacks")) ELSE Return(Errorf, "StacksFailed")
       ELSE Goto(After("stacks")) /\ UNCHANGED calls
    /\ UNCHANGED <<d, NArg, ids, idx, c, defers, delay, status, sent>>

\* lines 136-147: os.Create, defer f.Close(), c.Sandbox.HeapProfile(f)
HeapProfile ==
    /\ pc = "heap"
    /\ IF d.profileHeap # ""
       THEN \/ /\ calls' = Append(calls, Ev("Create", "heap", FALSE))
               /\ Return(Errorf, "CreateFailed")
               /\ UNCHANGED defers
            \/ \E ok \in BOOLEAN :
               /\ defers' = Append(defers, "heap")
               /\ calls' = calls \o
                    << Ev("Create", "heap", TRUE), Ev("HeapProfile", "heap", ok) >>
               /\ IF ok THEN Goto(After("heap")) ELSE Return(Errorf, "HeapProfileFailed")
       ELSE Goto(After("heap")) /\ UNCHANGED <<calls, defers>>
    /\ UNCHANGED <<d, NArg, ids, idx, c, delay, status, sent>>

\* variant: the cleanup is deferred only once the start request succeeded
CPUProfile_DeferAfterStart ==
    /\ pc = "cpu"
    /\ IF d.profileCPU # ""
       THEN /\ delay' = TRUE
            /\ \/ /\ calls' = Append(calls, Ev("Create", "cpu", FALSE))
                  /\ Return(Errorf, "CreateFailed")
                  /\ UNCHANGED defers
               \/ \E ok \in BOOLEAN :
                  /\ defers' = IF ok THEN Append(defers, "cpu") ELSE defers
                  /\ calls' = calls \o
                       << Ev("Create", "cpu", TRUE), Ev("StartCPUProfile", "cpu", ok) >>
                  /\ IF ok THEN Goto(After("cpu")) ELSE Return(Errorf, "StartFailed")
       ELSE Goto(After("cpu")) /\ UNCHANGED <<calls, defers, delay>>
    /\ UNCHANGED <<d, NArg, ids, idx, c, status, sent>>

\* lines 149-167: os.Create, defer func(){...}(), c.Sandbox.StartCPUProfile(f)
CPUProfile ==
    /\ pc = "cpu"
    /\ IF d.profileCPU # ""
       THEN /\ delay' = TRUE
            /\ \/ /\ calls' = Append(calls, Ev("Create", "cpu", FALSE))
                  /\ Return(Errorf, "CreateFailed")
                  /\ UNCHANGED defers
               \/ \E ok \in BOOLEAN :
                  /\ defers' = Append(defers, "cpu")
                  /\ calls' = calls \o
                       << Ev("Create", "cpu", TRUE), Ev("StartCPUProfile", "cpu", ok) >>
                  /\ IF ok THEN Goto(After("cpu")) ELSE Return(Errorf, "StartFailed")
       ELSE Goto(After("cpu")) /\ UNCHANGED <<calls, defers, delay>>
    /\ UNCHANGED <<d, NArg, ids, idx, c, status, sent>>

\* lines 168-186: os.Create, defer func(){...}(), c.Sandbox.StartTrace(f)
Trace ==
    /\ pc = "trace"
    /\ IF d.trace # ""
       THEN /\ delay' = TRUE
            /\ \/ /\ calls' = Append(calls, Ev("Create", "trace", FALSE))
                  /\ Return(Errorf, "CreateFailed")
                  /\ UNCHANGED defers
               \/ \E ok \in BOOLEAN :
                  /\ defers' = Append(defers, "trace")
                  /\ calls' = calls \o
                       << Ev("Create", "trace", TRUE), Ev("StartTrace", "trace", ok) >>
                  /\ IF ok THEN Goto(After("trace")) ELSE Return(Errorf, "StartFailed")
       ELSE Goto(After("trace")) /\ UNCHANGED <<calls, defers, delay>>
    /\ UNCHANGED <<d, NArg, ids, idx, c, status, sent>>

(***************************************************************************)
(* Logging reconfiguration, lines 188-240.                                 *)
(***************************************************************************)
off == Runes(<<"o","f","f">>)
all == Runes(<<"a","l","l">>)

\* line 189: control.LoggingArgs{SetStrace: true}, other fields zero
LoggingArgs ==
    [ SetStrace |-> TRUE, EnableStrace |-> FALSE, StraceWhitelist |-> <<>>,
      SetLevel |-> FALSE, Level |-> 0,
      SetLogPackets |-> FALSE, LogPackets |-> FALSE ]

\* variant: the keywords are compared without lowering the flag
StraceArgs_CaseSensitive(a, s) ==
    IF s # <<>>
    THEN IF s = off
         THEN a
         ELSE IF s = all
              THEN [a EXCEPT !.EnableStrace = TRUE]
              ELSE [a EXCEPT !.EnableStrace = TRUE, !.StraceWhitelist = Split(s, Comma)]
    ELSE a

\* lines 191-205: the strace flag
StraceArgs(a, s) ==
    IF s # <<>>
    THEN IF ToLower(s) = off
         THEN a
         ELSE IF ToLower(s) = all
              THEN [a EXCEPT !.EnableStrace = TRUE]
              ELSE [a EXCEPT !.EnableStrace = TRUE, !.StraceWhitelist = Split(s, Comma)]
    ELSE a

\* variant: the default case falls through instead of returning
ParseLevel_NoDefault(s) ==
    LET l == ToLower(s)
    IN  IF l \in LevelInfo
        THEN [ok |-> TRUE, Level |-> 1]
        ELSE IF l \in LevelDebug
        THEN [ok |-> TRUE, Level |-> 2]
        ELSE [ok |-> TRUE, Level |-> 0]

\* lines 209-218: the switch on the lowered log level; warning is 0, info 1,
\* debug 2 (line 72)
ParseLevel(s) ==
    LET l == ToLower(s)
    IN  IF l \in LevelWarning
        THEN [ok |-> TRUE, Level |-> 0]
        ELSE IF l \in LevelInfo
        THEN [ok |-> TRUE, Level |-> 1]
        ELSE IF l \in LevelDebug
        THEN [ok |-> TRUE, Level |-> 2]
        ELSE [ok |-> FALSE, Level |-> 0]

\* line 188: whether the logging block is entered
WantLogging == d.strace # <<>> \/ Len(d.logLevel) # 0 \/ Len(d.logPackets) # 0

\* lines 188-240
Logging ==
    /\ pc = "logging"
    /\ IF WantLogging
       THEN LET a1 == StraceArgs(LoggingArgs, d.strace)
                lv == ParseLevel(d.logLevel)
                a2 == IF Len(d.logLevel) # 0
                      THEN [a1 EXCEPT !.SetLevel = TRUE, !.Level = lv.Level]
                      ELSE a1
                lp == ParseBool(d.logPackets)
                a3 == IF Len(d.logPackets) # 0
                      THEN [a2 EXCEPT !.SetLogPackets = TRUE, !.LogPackets = lp.val]
                      ELSE a2
            IN  IF Len(d.logLevel) # 0 /\ ~lv.ok
                THEN Return(Errorf, "InvalidLogLevel") /\ UNCHANGED <<calls, sent>>
                ELSE IF Len(d.logPackets) # 0 /\ ~lp.ok
                THEN Return(Errorf, "InvalidBoolean") /\ UNCHANGED <<calls, sent>>
                ELSE \E ok \in BOOLEAN :
                     /\ calls' = Append(calls, Ev("ChangeLogging", "-", ok))
                     /\ sent' = Append(sent, a3)
                     /\ IF ok THEN Goto(After("logging"))
                        ELSE Return(Errorf, "ChangeLoggingFailed")
       ELSE Goto(After("logging")) /\ UNCHANGED <<calls, sent>>
    /\ UNCHANGED <<d, NArg, ids, idx, c, defers, delay, status>>

(***************************************************************************)
(* Delay, return and deferred cleanup, lines 242-246, 141, 156-162,        *)
(* 174-180.                                                                *)
(***************************************************************************)
\* variant: the sleep is not guarded by the flag
Sleep_Always ==
    /\ pc = "sleep"
    /\ calls' = Append(calls, Ev("Sleep", "-", TRUE))
    /\ Return("ExitSuccess", "none")
    /\ UNCHANGED <<d, NArg, ids, idx, c, defers, delay, status, sent>>

\* lines 242-246
Sleep ==
    /\ pc = "sleep"
    /\ IF delay
       THEN calls' = Append(calls, Ev("Sleep", "-", TRUE))
       ELSE UNCHANGED calls
    /\ Return("ExitSuccess", "none")
    /\ UNCHANGED <<d, NArg, ids, idx, c, defers, delay, status, sent>>

\* variant: the trace cleanup copied from the CPU one, stop call unchanged
StopOp_Copied(k) == "StopCPUProfile"

\* the stop request of a timed capture kind
StopOp(k) == IF k = "cpu" THEN "StopCPUProfile" ELSE "StopTrace"

\* variant: the cleanups never close the destination
DeferredCalls_NoClose(k, ok) ==
    IF k = "heap"
    THEN << >>
    ELSE << Ev(StopOp(k), k, ok) >>

\* variant: stop first, then close
DeferredCalls_StopFirst(k, ok) ==
    IF k = "heap"
    THEN << Ev("Close", k, TRUE) >>
    ELSE << Ev(StopOp(k), k, ok), Ev("Close", k, TRUE) >>

\* the external calls of one deferred cleanup: line 141 for heap,
\* lines 157-158 for cpu, lines 175-176 for trace
DeferredCalls(k, ok) ==
    IF k = "heap"
    THEN << Ev("Close", k, TRUE) >>
    ELSE << Ev("Close", k, TRUE), Ev(StopOp(k), k, ok) >>

\* variant: the error of the stop request is dropped
StopIsFatal_Dropped(k, ok) == FALSE

\* lines 158-160 and 176-178: whether the cleanup of kind k ends in Fatalf
StopIsFatal(k, ok) == k # "heap" /\ ~ok

\* variant: deferred calls run in the order they were registered
NextDeferred_FIFO(stack) == 1

\* Go runs deferred calls last in, first out: the one registered last is next
NextDeferred(stack) == Len(stack)

\* the deferred call that is next runs, when the function returns
RunDeferred ==
    /\ pc = "return"
    /\ defers # <<>>
    /\ LET n == NextDeferred(defers)
           k == defers[n]
       IN  \E ok \in BOOLEAN :
           /\ defers' = SubSeq(defers, 1, n - 1) \o SubSeq(defers, n + 1, Len(defers))
           /\ calls' = calls \o DeferredCalls(k, ok)
           /\ IF StopIsFatal(k, ok)
              THEN Fatalf
              ELSE UNCHANGED <<pc, status>>
    /\ UNCHANGED <<d, NArg, ids, idx, c, delay, ret, err, sent>>

\* all deferred calls have run: the caller receives the returned status
Finish ==
    /\ pc = "return"
    /\ defers = <<>>
    /\ status' = ret
    /\ pc' = "done"
    /\ UNCHANGED <<d, NArg, ids, idx, c, defers, delay, ret, err, calls, sent>>

Next ==
    \/ CheckArgs
    \/ LoadByID
    \/ List
    \/ ScanLoad
    \/ ScanEnd
    \/ CheckRunning
    \/ Signal
    \/ Stacks
    \/ HeapProfile
    \/ CPUProfile
    \/ Trace
    \/ Logging
    \/ Sleep
    \/ RunDeferred
    \/ Finish

Spec == Init /\ [][Next]_vars

TypeOK ==
    /\ pc \in { "args", "load", "list", "scan", "found", "running", "signal",
                "stacks", "heap", "cpu", "trace", "logging", "sleep",
                "return", "done", "exited" }
    /\ status \in { "none", "ExitSuccess", "ExitUsageError", "ExitFailure", "Fatal" }
    /\ Len(c) <= 1
    /\ idx <= Len(ids)

(***************************************************************************)
(* Vocabulary over the history of calls.                                   *)
(***************************************************************************)
Terminated == pc \in {"done", "exited"}

\* positions of the calls of operation op on destination file
At(op, file) == { i \in DOMAIN calls : calls[i].op = op /\ calls[i].file = file }

\* positions of the calls of operation op with outcome ok
AtOk(op, ok) == { i \in DOMAIN calls : calls[i].op = op /\ calls[i].ok = ok }

Opened(file) == \E i \in At("Create", file) : calls[i].ok
Closes(file) == Cardinality(At("Close", file))
Started(op) == AtOk(op, TRUE) # {}
StartFailed(op) == AtOk(op, FALSE) # {}
Stops(op) == Cardinality({ i \in DOMAIN calls : calls[i].op = op })
StopFailed(op) == AtOk(op, FALSE) # {}
AnyStopFailed == StopFailed("StopCPUProfile") \/ StopFailed("StopTrace")
Pending(file) == \E i \in DOMAIN defers : defers[i] = file

\* the diagnostic actions: every external call but the registry's List and Load
Diagnostic(e) == e.op \notin {"List", "Load"}

\* the actions that follow the heap capture in the function body
AfterHeap(e) ==
    \/ e.op \in {"StartCPUProfile", "StartTrace", "ChangeLogging", "Sleep"}
    \/ e.op = "Create" /\ e.file \in {"cpu", "trace"}

AcceptedLevels ==
    { Runes(<<"w","a","r","n","i","n","g">>), Runes(<<"0">>), Runes(<<"i","n","f","o">>),
      Runes(<<"1">>), Runes(<<"d","e","b","u","g">>), Runes(<<"2">>) }
BooleanLiterals ==
    { Runes(<<"1">>), Runes(<<"t">>), Runes(<<"T">>), Runes(<<"T","R","U","E">>),
      Runes(<<"t","r","u","e">>), Runes(<<"T","r","u","e">>), Runes(<<"0">>),
      Runes(<<"f">>), Runes(<<"F">>), Runes(<<"F","A","L","S","E">>),
      Runes(<<"f","a","l","s","e">>), Runes(<<"F","a","l","s","e">>) }
BadLevel == d.logLevel # <<>> /\ ToLower(d.logLevel) \notin AcceptedLevels
BadPackets == d.logPackets # <<>> /\ d.logPackets \notin BooleanLiterals

(***************************************************************************)
(* C1                                                                      *)
(***************************************************************************)
\* C1 as stated: when the command has ended, whatever the outcome of each
\* step, every destination that was opened has been closed exactly once.
C1_ClosedOnceAlways ==
    Terminated => \A f \in Files : Opened(f) => Closes(f) = 1

\* C1 amended: a destination is closed only if it was opened, and an opened
\* destination has been closed exactly once as soon as its deferred cleanup
\* has run and not at all before; a command that returns a status has run
\* every cleanup, a command ended by a failed stop leaves the destinations
\* whose cleanup was still pending unclosed.
C1_ClosedOnceUnlessFatal ==
    /\ \A f \in Files :
         /\ ~Opened(f) => Closes(f) = 0 /\ ~Pending(f)
         /\ Opened(f) => Closes(f) = (IF Pending(f) THEN 0 ELSE 1)
    /\ pc = "done" => defers = <<>>
    /\ (pc = "exited" /\ defers # <<>>) => AnyStopFailed

\* all three destinations opened, a later step failed, the command returned
C1_Witness ==
    /\ pc = "done"
    /\ status = "ExitFailure"
    /\ \A f \in Files : Opened(f) /\ Closes(f) = 1

(***************************************************************************)
(* C2                                                                      *)
(***************************************************************************)
\* C2 as stated: when the command has ended, each timed capture whose start
\* succeeded has had exactly one stop request, also when the other kind's
\* stop failed.
C2_StopOnceAlways ==
    Terminated =>
        /\ Started("StartCPUProfile") => Stops("StopCPUProfile") = 1
        /\ Started("StartTrace") => Stops("StopTrace") = 1

\* C2 amended: no kind is stopped more than once; a trace whose start
\* succeeded has had exactly one stop request when the command has ended, in
\* all cases; a CPU profile whose start succeeded has had exactly one stop
\* request when the command has ended, except when the trace stop failed:
\* then the process is gone before the CPU cleanup and no CPU stop is issued.
C2_StopOnceUnlessTraceStopFailed ==
    /\ Stops("StopCPUProfile") <= 1
    /\ Stops("StopTrace") <= 1
    /\ Terminated =>
        /\ Started("StartTrace") => Stops("StopTrace") = 1
        /\ Started("StartCPUProfile") =>
             Stops("StopCPUProfile") = (IF StopFailed("StopTrace") THEN 0 ELSE 1)

\* both captures started, a later step failed, both were stopped
C2_Witness ==
    /\ pc = "done"
    /\ err = "InvalidLogLevel"
    /\ Started("StartCPUProfile") /\ Stops("StopCPUProfile") = 1
    /\ Started("StartTrace") /\ Stops("StopTrace") = 1

(***************************************************************************)
(* C3                                                                      *)
(***************************************************************************)
\* C3 as stated: stop-then-close, no stop request is issued after the close
\* of the destination of its session.
C3_StopThenClose ==
    \A i \in DOMAIN calls :
        calls[i].op \in {"StopCPUProfile", "StopTrace"} =>
            \A j \in At("Close", calls[i].file) : i < j

\* C3 amended: close-then-stop, every stop request is issued right after the
\* close of the destination of its session, so the destination is already
\* closed while stop runs.
C3_CloseThenStop ==
    \A i \in DOMAIN calls :
        calls[i].op \in {"StopCPUProfile", "StopTrace"} =>
            /\ i > 1
            /\ calls[i-1] = Ev("Close", calls[i].file, TRUE)
            /\ calls[i].file = (IF calls[i].op = "StopTrace" THEN "trace" ELSE "cpu")

\* both kinds were stopped
C3_Witness ==
    /\ Stops("StopCPUProfile") = 1
    /\ Stops("StopTrace") = 1
    /\ pc = "done"

(***************************************************************************)
(* C4                                                                      *)
(***************************************************************************)
\* C4 as stated: a request is sent iff one of the three inputs is supplied
\* and the logging step is passed, and in every request sent the set flags
\* that are true are exactly those whose input was supplied.
C4_SetFlagsMatchInputs ==
    /\ Len(sent) > 0 =>
         (d.strace # <<>> \/ d.logLevel # <<>> \/ d.logPackets # <<>>)
    /\ pc = "sleep" =>
         (Len(sent) = 1 <=> (d.strace # <<>> \/ d.logLevel # <<>> \/ d.logPackets # <<>>))
    /\ \A i \in DOMAIN sent :
         /\ sent[i].SetStrace = (d.strace # <<>>)
         /\ sent[i].SetLevel = (d.logLevel # <<>>)
         /\ sent[i].SetLogPackets = (d.logPackets # <<>>)

(***************************************************************************)
(* C5                                                                      *)
(***************************************************************************)
\* C5 as stated: with a log level that is not accepted or a log-packets
\* value that is no boolean literal the command ends with the failure status
\* and never calls ChangeLogging; ChangeLogging is called at most once.
C5_InvalidEndsInFailure ==
    /\ Stops("ChangeLogging") <= 1
    /\ (BadLevel \/ BadPackets) => Stops("ChangeLogging") = 0
    /\ (Terminated /\ (BadLevel \/ BadPackets)) => status = "ExitFailure"

\* C5 amended: with such an input ChangeLogging is never called and the
\* command never succeeds: it ends with the failure status, except that it
\* ends with the usage-error status when the argument count is wrong for the
\* mode and by fatal termination when a stop request fails; ChangeLogging is
\* called at most once per run, and only with all three inputs valid.
C5_InvalidNeverSent ==
    /\ Stops("ChangeLogging") <= 1
    /\ Len(sent) = Stops("ChangeLogging")
    /\ (BadLevel \/ BadPackets) => Stops("ChangeLogging") = 0
    /\ (Terminated /\ (BadLevel \/ BadPackets)) =>
         /\ status \in {"ExitFailure", "ExitUsageError", "Fatal"}
         /\ status = "ExitUsageError" <=> NArg # (IF d.pid = 0 THEN 1 ELSE 0)
         /\ status = "Fatal" <=> AnyStopFailed

\* a valid strace input with an invalid log level: the failure is returned
C5_Witness ==
    /\ pc = "done"
    /\ d.strace = all
    /\ BadLevel
    /\ err = "InvalidLogLevel"
    /\ status = "ExitFailure"

(***************************************************************************)
(* C6                                                                      *)
(***************************************************************************)
\* C6 as stated: for a request with a container ID and a log level that is
\* not accepted, no external call precedes the InvalidLogLevel failure.
C6_FailureBeforeAnyCall ==
    (d.pid = 0 /\ NArg = 1 /\ BadLevel /\ err = "InvalidLogLevel") => calls = <<>>

\* C6 amended: for such a request the InvalidLogLevel failure is returned
\* only after the container was loaded and its sandbox found running and
\* after every other requested action (signal, stack dump, heap capture, CPU
\* and trace start) was made and succeeded; no reconfiguration call is made;
\* and the run ends with that failure whenever all those calls succeed.
C6_FailureAfterActions ==
    /\ (d.pid = 0 /\ BadLevel /\ err = "InvalidLogLevel") =>
         /\ NArg = 1
         /\ Len(calls) >= 1 /\ calls[1] = Ev("Load", "-", TRUE)
         /\ c # <<>> /\ c[1].HasSandbox /\ c[1].IsRunning
         /\ d.signal > 0 => AtOk("Kill", TRUE) # {}
         /\ d.stacks => AtOk("Stacks", TRUE) # {}
         /\ d.profileHeap # "" => AtOk("HeapProfile", TRUE) # {}
         /\ d.profileCPU # "" => AtOk("StartCPUProfile", TRUE) # {}
         /\ d.trace # "" => AtOk("StartTrace", TRUE) # {}
         /\ Stops("ChangeLogging") = 0
    /\ (d.pid = 0 /\ NArg = 1 /\ BadLevel /\ pc = "done"
          /\ c # <<>> /\ c[1].HasSandbox /\ c[1].IsRunning
          /\ \A i \in DOMAIN calls : calls[i].ok) =>
         err = "InvalidLogLevel"

\* container ID, signal and invalid log level: signal delivered, then failure
C6_Witness ==
    /\ pc = "done"
    /\ d.pid = 0 /\ BadLevel /\ d.signal > 0
    /\ err = "InvalidLogLevel"
    /\ AtOk("Kill", TRUE) # {}
    /\ calls[1] = Ev("Load", "-", TRUE)

(***************************************************************************)
(* C7                                                                      *)
(***************************************************************************)
\* C7 as stated: when a capture start request failed the command ends with
\* the failure status, never by fatal termination, and the destination
\* opened for that capture has been closed.
C7_StartFailureIsOrdinary ==
    /\ (Terminated /\ StartFailed("StartCPUProfile")) =>
          status = "ExitFailure" /\ Closes("cpu") = 1
    /\ (Terminated /\ StartFailed("StartTrace")) =>
          status = "ExitFailure" /\ Closes("trace") = 1

(***************************************************************************)
(* C8                                                                      *)
(***************************************************************************)
\* C8: a stop request that returns an error ends the command by fatal
\* termination at once, no status is returned; every failure of another kind
\* ends with the returned failure status provided no stop fails; fatal
\* termination has no other cause.
C8_StopFailureIsFatal ==
    /\ AnyStopFailed => pc = "exited" /\ status = "Fatal"
    /\ status = "Fatal" => AnyStopFailed
    /\ (Terminated /\ ~AnyStopFailed /\ err \notin {"none", "Usage"}) =>
         pc = "done" /\ status = "ExitFailure"
    /\ ~Terminated => status = "none"

\* every step succeeded, then the CPU stop failed: no success status
C8_Witness ==
    /\ ret = "ExitSuccess"
    /\ StopFailed("StopCPUProfile")
    /\ status = "Fatal"

(***************************************************************************)
(* C9                                                                      *)
(***************************************************************************)
\* C9 as stated: the heap destination is closed before any later action
\* (CPU or trace open or start, logging reconfiguration, delay).
C9_HeapClosedAtOnce ==
    \A i \in DOMAIN calls :
        (Opened("heap") /\ AfterHeap(calls[i])) =>
            \E j \in At("Close", "heap") : j < i

\* C9 amended: the heap snapshot is requested right after the destination
\* opens, but the close of the heap destination is deferred to the end of
\* the command: no call follows it, every later action, the delay and the
\* CPU and trace cleanups come before it, and a command that returns a
\* status has closed it as its last call.
C9_HeapClosedLast ==
    /\ \A i \in At("Create", "heap") :
         calls[i].ok => (i < Len(calls) /\ calls[i+1].op = "HeapProfile")
    /\ \A i \in At("Close", "heap") :
         i = Len(calls) /\ defers = <<>> /\ pc \in {"return", "done"}
    /\ (pc = "done" /\ Opened("heap")) => calls[Len(calls)] = Ev("Close", "heap", TRUE)

\* heap captured, a CPU profile taken and the delay slept before the close
C9_Witness ==
    /\ pc = "done"
    /\ Closes("heap") = 1
    /\ Started("StartCPUProfile")
    /\ AtOk("Sleep", TRUE) # {}

(***************************************************************************)
(* C10                                                                     *)
(***************************************************************************)
\* C10: a run whose resolution ends in LoadFailed, ListFailed or NotFound,
\* or whose resolved container has no sandbox or a sandbox that is not
\* running, attempts no diagnostic action and ends with the failure status,
\* NotRunning in the last case.
C10_NoActionWithoutTarget ==
    /\ err \in {"LoadFailed", "ListFailed", "NotFound", "NotRunning"} =>
         /\ \A i \in DOMAIN calls : ~Diagnostic(calls[i])
         /\ defers = <<>>
         /\ pc \in {"return", "done"}
         /\ pc = "done" => status = "ExitFailure"
    /\ (c # <<>> /\ (~c[1].HasSandbox \/ ~c[1].IsRunning)) =>
         /\ \A i \in DOMAIN calls : ~Diagnostic(calls[i])
         /\ pc \in {"found", "running", "return", "done"}
         /\ pc \in {"return", "done"} => err = "NotRunning" /\ ret = "ExitFailure"
         /\ pc = "done" => status = "ExitFailure"

\* found by PID, the sandbox is there but not running, actions were requested
C10_Witness ==
    /\ pc = "done"
    /\ d.pid # 0
    /\ c # <<>> /\ c[1].HasSandbox /\ ~c[1].IsRunning
    /\ d.signal > 0 /\ d.stacks /\ d.profileCPU # ""
    /\ err = "NotRunning"
    /\ status = "ExitFailure"

(***************************************************************************)
(* C11                                                                     *)
(***************************************************************************)
\* C11: with pid = 0 and a positional argument count other than one, or
\* pid # 0 and a count other than zero, the command ends with the usage
\* error status and makes no call at all: no List, no Load, no diagnostic
\* action; the usage error status has no other cause.
C11_UsageErrorFirst ==
    /\ ((d.pid = 0 /\ NArg # 1) \/ (d.pid # 0 /\ NArg # 0)) =>
         /\ calls = <<>>
         /\ c = <<>> /\ defers = <<>>
         /\ pc \in {"args", "return", "done"}
         /\ pc # "args" => ret = "ExitUsageError"
         /\ pc = "done" => status = "ExitUsageError"
    /\ (ret = "ExitUsageError" \/ status = "ExitUsageError") =>
         ((d.pid = 0 /\ NArg # 1) \/ (d.pid # 0 /\ NArg # 0))

\* a container ID and one argument too many, with actions requested
C11_Witness ==
    /\ pc = "done"
    /\ d.pid = 0 /\ NArg = 2
    /\ d.signal > 0 /\ d.stacks
    /\ status = "ExitUsageError"
    /\ calls = <<>>

(***************************************************************************)
(* C12                                                                     *)
(***************************************************************************)
\* whether the listed entry loads and its sandbox PID is the requested one
Matches(e) == e.ok /\ e.cont.SandboxPid = d.pid

\* C12: the PID scan loads the listed containers one by one in the order of
\* the listing; it stops at the first one whose sandbox PID is the requested
\* pid, selects it and loads nothing after it; a load failure met before a
\* match ends the command with LoadFailed, whatever follows in the listing;
\* when every entry was loaded and none matched the result is NotFound.
C12_FirstMatchScan ==
    /\ pc \in {"scan", "found"} =>
         /\ Stops("Load") = idx
         /\ \A j \in 1..idx : calls[j + 1] = Ev("Load", "-", TRUE)
         /\ \A j \in 1..(idx - 1) : ids[j].ok /\ ~Matches(ids[j])
    /\ pc = "scan" =>
         /\ c = <<>>
         /\ idx > 0 => ids[idx].ok /\ ~Matches(ids[idx])
    /\ pc = "found" =>
         /\ idx > 0
         /\ Matches(ids[idx])
         /\ c = << ids[idx].cont >>
    /\ (d.pid # 0 /\ err = "LoadFailed") =>
         /\ Stops("Load") = idx + 1
         /\ calls[Len(calls)].op \in {"Load"} /\ ~calls[Len(calls)].ok
         /\ ~ids[idx + 1].ok
         /\ \A j \in 1..idx : ids[j].ok /\ ~Matches(ids[j])
         /\ c = <<>>
    /\ err = "NotFound" =>
         /\ d.pid # 0
         /\ Stops("Load") = Len(ids)
         /\ \A j \in 1..Len(ids) : ids[j].ok /\ ~Matches(ids[j])
         /\ c = <<>>
    /\ (d.pid # 0 /\ c # <<>>) => c[1].SandboxPid = d.pid

\* two listed containers have the requested PID: the first is selected and
\* the second, a different container, is not loaded
C12_Witness ==
    /\ pc = "found"
    /\ Len(ids) = 2 /\ idx = 1
    /\ Matches(ids[1]) /\ Matches(ids[2])
    /\ ids[1].cont # ids[2].cont
    /\ c = << ids[1].cont >>
    /\ Stops("Load") = 1

(***************************************************************************)
(* C13                                                                     *)
(***************************************************************************)
\* position of an action in the fixed order, 0 for the other calls
Rank(e) ==
    IF e.op = "Kill" THEN 1
    ELSE IF e.op = "Stacks" THEN 2
    ELSE IF e.op = "HeapProfile" THEN 3
    ELSE IF e.op = "StartCPUProfile" THEN 4
    ELSE IF e.op = "StartTrace" THEN 5
    ELSE IF e.op = "ChangeLogging" THEN 6
    ELSE 0

\* C13: the actions attempted in a run occur in the order signal delivery,
\* stack dump, heap capture, CPU profile start, trace start, logging
\* reconfiguration: no action of a later position precedes one of an earlier
\* position.
C13_FixedActionOrder ==
    \A i, j \in DOMAIN calls :
        (i < j /\ Rank(calls[i]) > 0 /\ Rank(calls[j]) > 0) =>
            Rank(calls[i]) < Rank(calls[j])

\* all six actions were attempted in one run
C13_Witness ==
    /\ \A r \in 1..6 : \E i \in DOMAIN calls : Rank(calls[i]) = r
    /\ pc = "done"

(***************************************************************************)
(* C14                                                                     *)
(***************************************************************************)
Cleanup(e) == e.op \in {"Close", "StopCPUProfile", "StopTrace"}

\* C14: after a call of the action sequence that failed only cleanup calls
\* follow; a failing return is followed by no delay and, for a validation
\* failure, by no reconfiguration; no call is repeated (one List, one Load
\* per listed id or of the given id, one call per action and destination);
\* the success status is returned only when no call failed and no return
\* statement reported a failure.
C14_FailFastNoRetry ==
    /\ \A i, j \in DOMAIN calls :
         (i < j /\ ~calls[i].ok /\ ~Cleanup(calls[i])) => Cleanup(calls[j])
    /\ err # "none" => AtOk("Sleep", TRUE) = {}
    /\ err \in {"InvalidLogLevel", "InvalidBoolean"} => Stops("ChangeLogging") = 0
    /\ \A i, j \in DOMAIN calls :
         (i < j /\ calls[i].op = calls[j].op /\ calls[i].file = calls[j].file) =>
            /\ calls[i].op = "Load"
            /\ d.pid # 0
    /\ pc \in {"scan", "found"} => Stops("Load") <= Len(ids)
    /\ status = "ExitSuccess" =>
         /\ err = "none"
         /\ \A i \in DOMAIN calls : calls[i].ok

\* the trace start failed after the CPU profile had started: cleanup follows
C14_Witness ==
    /\ pc = "done"
    /\ Started("StartCPUProfile")
    /\ StartFailed("StartTrace")
    /\ d.strace # <<>>
    /\ status = "ExitFailure"

(***************************************************************************)
(* C15                                                                     *)
(***************************************************************************)
\* C15 as stated: the flag is true if and only if a CPU profile or trace
\* start request succeeded.
C15_DelayIffStarted ==
    delay <=> (Started("StartCPUProfile") \/ Started("StartTrace"))

\* C15 amended: the flag is set when a CPU profile or a trace is requested,
\* before its destination is opened and its start request is issued, so it
\* is true if and only if the open of a CPU profile or trace destination was
\* attempted; where the flag is read, after the main sequence, it is true if
\* and only if a start request succeeded; the command sleeps only then, and
\* a request without CPU profile and trace leaves the flag false and returns
\* without sleeping.
C15_DelayIffRequested ==
    /\ delay <=> (At("Create", "cpu") # {} \/ At("Create", "trace") # {})
    /\ pc = "sleep" =>
         (delay <=> (Started("StartCPUProfile") \/ Started("StartTrace")))
    /\ AtOk("Sleep", TRUE) # {} =>
         delay /\ (Started("StartCPUProfile") \/ Started("StartTrace"))
    /\ (pc \in {"return", "done", "exited"} /\ err = "none" /\ delay
          /\ ret = "ExitSuccess") => AtOk("Sleep", TRUE) # {}
    /\ (d.profileCPU = "" /\ d.trace = "") =>
         ~delay /\ AtOk("Sleep", TRUE) = {}

\* only heap profile and stacks requested: success without sleeping
C15_Witness ==
    /\ pc = "done"
    /\ status = "ExitSuccess"
    /\ d.stacks /\ d.profileHeap # "" /\ d.profileCPU = "" /\ d.trace = ""
    /\ ~delay
    /\ AtOk("Sleep", TRUE) = {}

(***************************************************************************)
(* C16                                                                     *)
(***************************************************************************)
\* a stop request, or the close of a CPU profile or trace destination
Finalizes(e) ==
    \/ e.op \in {"StopCPUProfile", "StopTrace"}
    \/ e.op = "Close" /\ e.file \in {"cpu", "trace"}

\* C16 as stated, read on the runs in which no start request failed (every
\* stop is then the stop of an active session): no stop and no close of a
\* CPU profile or trace destination precedes the delay, and in a run that
\* ended without the delay every session that became active was stopped and
\* its destination closed.
C16_FinalizedAfterDelayAlways ==
    /\ \A i, j \in DOMAIN calls :
         (calls[i].op = "Sleep" /\ Finalizes(calls[j])) => i < j
    /\ (Terminated /\ AtOk("Sleep", TRUE) = {}
          /\ ~StartFailed("StartCPUProfile") /\ ~StartFailed("StartTrace")) =>
         /\ Started("StartCPUProfile") =>
              Stops("StopCPUProfile") = 1 /\ Closes("cpu") = 1
         /\ Started("StartTrace") =>
              Stops("StopTrace") = 1 /\ Closes("trace") = 1

\* C16 amended: no stop and no close of a CPU profile or trace destination
\* precedes the delay; in a run that ended without the delay an active trace
\* session was stopped and its destination closed, and so was an active CPU
\* session, except when the trace stop failed: the process was terminated
\* there, and the CPU session was neither stopped nor its destination closed.
C16_FinalizedAfterDelay ==
    /\ \A i, j \in DOMAIN calls :
         (calls[i].op = "Sleep" /\ Finalizes(calls[j])) => i < j
    /\ (Terminated /\ AtOk("Sleep", TRUE) = {}) =>
         /\ Started("StartTrace") =>
              Stops("StopTrace") = 1 /\ Closes("trace") = 1
         /\ Started("StartCPUProfile") =>
              IF StopFailed("StopTrace")
              THEN Stops("StopCPUProfile") = 0 /\ Closes("cpu") = 0
              ELSE Stops("StopCPUProfile") = 1 /\ Closes("cpu") = 1

\* both sessions active, ChangeLogging failed, no delay: both finalized
C16_Witness ==
    /\ pc = "done"
    /\ err = "ChangeLoggingFailed"
    /\ AtOk("Sleep", TRUE) = {}
    /\ Started("StartCPUProfile") /\ Started("StartTrace")
    /\ Closes("cpu") = 1 /\ Closes("trace") = 1

(***************************************************************************)
(* C17                                                                     *)
(***************************************************************************)
\* C17: a signal value <= 0 never leads to a delivery attempt; with a value
\* > 0 and a running sandbox resolved exactly one attempt is made, for that
\* signal, to the process ID of the sandbox, before any other action; a
\* failed delivery ends the command with the failure status.
C17_SignalOnceIfPositive ==
    /\ Stops("Kill") <= 1
    /\ d.signal <= 0 => Stops("Kill") = 0
    /\ \A i \in DOMAIN calls :
         calls[i].op = "Kill" =>
            /\ d.signal > 0
            /\ c # <<>> /\ c[1].HasSandbox /\ c[1].IsRunning
            /\ calls[i].pid = c[1].Pid
            /\ calls[i].sig = d.signal
            /\ \A j \in 1..(i - 1) : ~Diagnostic(calls[j])
            /\ ~calls[i].ok =>
                 /\ i = Len(calls)
                 /\ err = "SignalFailed" /\ ret = "ExitFailure"
                 /\ pc \in {"return", "done"}
                 /\ pc = "done" => status = "ExitFailure"
    /\ (d.signal > 0 /\ c # <<>> /\ c[1].HasSandbox /\ c[1].IsRunning
          /\ pc \notin {"found", "running", "signal"}) => Stops("Kill") = 1

\* a signal delivered to the sandbox found by its container ID, and failed
C17_Witness ==
    /\ pc = "done"
    /\ d.pid = 0
    /\ d.signal = 9
    /\ c # <<>> /\ calls # <<>>
    /\ calls[Len(calls)] = KillEv(c[1].Pid, 9, FALSE)
    /\ status = "ExitFailure"

(***************************************************************************)
(* C18                                                                     *)
(***************************************************************************)
\* C18: in every request sent, an strace input that is "off" in any case
\* gives SetStrace true, EnableStrace false and an empty whitelist; "all" in
\* any case gives EnableStrace true and an empty whitelist; any other
\* non-empty input gives EnableStrace true and the input split on commas, in
\* order, as whitelist.
C18_StraceMapping ==
    \A i \in DOMAIN sent :
        /\ d.strace = MixedCaseOff =>
             /\ sent[i].SetStrace /\ ~sent[i].EnableStrace
             /\ sent[i].StraceWhitelist = <<>>
        /\ d.strace \in { all, UpperCaseAll } =>
             /\ sent[i].SetStrace /\ sent[i].EnableStrace
             /\ sent[i].StraceWhitelist = <<>>
        /\ d.strace = CommaList =>
             /\ sent[i].SetStrace /\ sent[i].EnableStrace
             /\ sent[i].StraceWhitelist = CommaListNames
        /\ (d.strace # <<>> /\ ToLower(d.strace) \notin { off, all }) =>
             /\ sent[i].EnableStrace
             /\ sent[i].StraceWhitelist = Split(d.strace, Comma)
             /\ Len(sent[i].StraceWhitelist) =
                  1 + Cardinality({ k \in DOMAIN d.strace : d.strace[k] = Comma })

\* a list of two syscalls was sent as whitelist
C18_Witness ==
    /\ Len(sent) = 1
    /\ d.strace = CommaList
    /\ sent[1].StraceWhitelist = CommaListNames
    /\ pc = "done"

(***************************************************************************)
(* C19                                                                     *)
(***************************************************************************)
\* C19: a stop request is issued at most once per kind; it is issued as
\* soon as the deferred cleanup of a destination that was opened has run,
\* whether the start request of that kind succeeded or failed; none is
\* issued for a kind whose open failed or that was not requested.
C19_StopWheneverOpened ==
    /\ Stops("StopCPUProfile") <= 1
    /\ Stops("StopTrace") <= 1
    /\ (Opened("cpu") /\ ~Pending("cpu")) => Stops("StopCPUProfile") = 1
    /\ (Opened("trace") /\ ~Pending("trace")) => Stops("StopTrace") = 1
    /\ Pending("cpu") => Opened("cpu") /\ Stops("StopCPUProfile") = 0
    /\ Pending("trace") => Opened("trace") /\ Stops("StopTrace") = 0
    /\ ~Opened("cpu") => Stops("StopCPUProfile") = 0
    /\ ~Opened("trace") => Stops("StopTrace") = 0
    /\ d.profileCPU = "" => ~Opened("cpu")
    /\ d.trace = "" => ~Opened("trace")

\* the CPU profile start failed and StopCPUProfile was issued all the same
C19_Witness ==
    /\ StartFailed("StartCPUProfile")
    /\ ~Started("StartCPUProfile")
    /\ Stops("StopCPUProfile") = 1

(***************************************************************************)
(* C20                                                                     *)
(***************************************************************************)
\* position of a cleanup call in the reverse order of acquisition
CleanupRank(e) ==
    IF e = Ev("Close", "trace", TRUE) THEN 1
    ELSE IF e.op = "StopTrace" THEN 2
    ELSE IF e = Ev("Close", "cpu", TRUE) THEN 3
    ELSE IF e.op = "StopCPUProfile" THEN 4
    ELSE IF e = Ev("Close", "heap", TRUE) THEN 5
    ELSE 0

\* C20: cleanup runs in reverse order of acquisition: trace close, StopTrace,
\* CPU close, StopCPUProfile, heap close, and nothing but cleanup follows a
\* cleanup call; when StopTrace fails the process terminates there, so that
\* no StopCPUProfile is issued and the CPU and heap destinations stay
\* unclosed though opened.
C20_ReverseOrderCleanup ==
    /\ \A i, j \in DOMAIN calls :
         (i < j /\ CleanupRank(calls[i]) > 0) =>
            /\ CleanupRank(calls[j]) > 0
            /\ CleanupRank(calls[i]) < CleanupRank(calls[j])
    /\ StopFailed("StopTrace") =>
         /\ pc = "exited" /\ status = "Fatal"
         /\ calls[Len(calls)] = Ev("StopTrace", "trace", FALSE)
         /\ Stops("StopCPUProfile") = 0
         /\ Closes("cpu") = 0 /\ Closes("heap") = 0
         /\ \A f \in {"cpu", "heap"} : Opened(f) => Pending(f)

\* all three destinations opened, StopTrace failed: two stay unclosed
C20_Witness ==
    /\ StopFailed("StopTrace")
    /\ Opened("heap") /\ Opened("cpu") /\ Closes("trace") = 1
    /\ Started("StartCPUProfile")
    /\ Stops("StopCPUProfile") = 0

====
